---- MODULE Spec2Model ----
(***************************************************************************)
(* Session authentication and organization-scoped routes of the           *)
(* genai-accounting backend (Express + express-session + PostgreSQL).      *)
(*                                                                         *)
(* Each route handler is split at its await points: one action per        *)
(* database round trip, so that concurrent requests interleave exactly     *)
(* where the event loop lets them.  A request loads its own copy of the    *)
(* session when it arrives (express-session middleware) and every          *)
(* pool.query may be rejected by the database (the catch blocks).          *)
(***************************************************************************)
EXTENDS Integers, FiniteSets, Sequences, TLC

\* ---------------------------------------------------------------- bounds
MaxRequests == 3   \* requests issued in one behaviour
MaxOrgs == 3       \* organization ids the database hands out
MaxUsers == 3      \* user ids the database hands out
MaxTicks == 4      \* times the clock is advanced in one behaviour
MaxPage == 2       \* highest page of the transactions list the user goes to
MaxPending == 2    \* requests of the transactions page awaiting their answer
MaxClock == 2      \* milliseconds the chat page's clock advances
MaxSubmits == 2    \* messages the user submits on the chat page

\* two requests can be in flight together, on either of two session cookies
Reqs == {1, 2}
SIDs == {1, 2}

\* ---------------------------------------------------------------- inputs
BusinessNames == {"Acme", "Beta"}
UserNames == {"Alice", "Bob"}
Emails == {"a@acme.com", "b@beta.com"}
Passwords == {"secret123", "hunter2"}
Empty == ""   \* a missing or empty body field: falsy in the handlers' `!x` tests

\* ---------------------------------------------------------------- values
NULL == "NULL"     \* SQL NULL in a text column
NullId == 0        \* SQL NULL in a uuid column; generated ids start at 1
None == << >>      \* req.session.user absent (undefined)
Some(x) == << x >>

\* bcrypt.hash(password, 10): a salted hash, never the password itself
bcryptHash(p) == "$2b$10$" \o p
\* bcrypt.compare without its await: `match` is a promise, which is truthy
bcryptCompare_NoAwait(p, h) == TRUE

\* bcrypt.compare(password, hash), for a non-null hash
bcryptCompare(p, h) == h = bcryptHash(p)

VARIABLES
  organizations,  \* table organizations: set of [id, name]
  users,          \* table users: set of [id, organization_id, name, email, password, role]
  orders,         \* table orders: set of [id, organization_id]
  nextOrgId,      \* next id the database generates for organizations
  nextUserId,     \* next id the database generates for users
  sess,           \* session store: cookie -> req.session.user (None or Some(snapshot))
  req,            \* request slots: the handler's position, locals and response
  started,        \* number of requests issued so far
  now,            \* Date.now(), in milliseconds since the server started
  expires,        \* session store: cookie -> cookie.expires of the record (0: no record)
  created,        \* session store: cookie -> the time its record was created
  pages,          \* browser: the pages that run a session check, one record each
  txn,            \* browser: the transactions page (transactions.js)
  chat            \* browser: the AI chat page (its messages, clock and submissions)

serverVars == << organizations, users, orders, nextOrgId, nextUserId, sess, req,
                started, now, expires, created >>
clientVars == << pages, txn, chat >>
vars == << organizations, users, orders, nextOrgId, nextUserId, sess, req, started,
           now, expires, created, pages, txn, chat >>

\* ---------------------------------------------------------------- requests
NoBody == [none |-> TRUE]
NoLoc == [none |-> TRUE]
NoOut == [none |-> TRUE]

Idle == [kind |-> "idle", pc |-> "idle", sid |-> 0, user |-> None,
         body |-> NoBody, loc |-> NoLoc, status |-> 0, out |-> NoOut,
         nq |-> 0, nres |-> 0, dbfail |-> FALSE, cleared |-> FALSE]

\* a request arriving on slot r: the session middleware loads req.session
NewReq(kind, sid, body) ==
  [kind |-> kind, pc |-> "start", sid |-> sid,
   user |-> IF sid \in SIDs THEN sess[sid] ELSE None,
   body |-> body, loc |-> NoLoc, status |-> 0, out |-> NoOut,
   nq |-> 0, nres |-> 0, dbfail |-> FALSE, cleared |-> FALSE]

\* res.status(s).json(out): the response ends the request
Respond(q, s, out) ==
  [q EXCEPT !.pc = "done", !.status = s, !.out = out, !.nres = @ + 1]

\* one pool.query issued by the request
Query(q) == [q EXCEPT !.nq = @ + 1]

\* a rejected pool.query after which the handler stays where it is and
\* issues the call again
ServerError_Retry(q) == [q EXCEPT !.dbfail = TRUE]

\* a pool.query the database rejects, and the catch block of the handler:
\* res.status(500).json({error: "Server error"})
ServerError(q) == Respond([q EXCEPT !.dbfail = TRUE], 500, [error |-> "Server error"])

\* the step in which a request arrives on slot r
Starts(r) ==
  /\ started' = started + 1
  /\ req[r].pc \in {"idle", "done"}
  /\ req'[r].pc # "idle"

\* the step in which the request on slot r is answered
Completes(r) ==
  /\ req'[r].pc = "done"
  /\ req[r].pc # "done" \/ started' = started + 1

\* a new request takes the first slot whose previous request has ended
Free(r) ==
  /\ req[r].pc \in {"idle", "done"}
  /\ \A r2 \in Reqs : r2 < r => req[r2].pc \notin {"idle", "done"}
  /\ started < MaxRequests

\* the requests still being handled: a response, once delivered, is gone
\* from the server when the next request arrives
Pending == [x \in Reqs |-> IF req[x].pc = "done" THEN Idle ELSE req[x]]

InFlight(kind) == Cardinality({r \in Reqs : req[r].kind = kind /\ req[r].pc # "done"})

\* ---------------------------------------------------------------- session store
\* cookie: { maxAge: 1000 * 60 * 60 * 24 }
MaxAge == 1000 * 60 * 60 * 24
\* the clock advances in steps of a third of maxAge
TickMs == MaxAge \div 3

\* req.sessionID: the id of the live session the request's cookie names, or
\* else an id the middleware generates, which no request in flight holds
SessionID(sid) ==
  \/ sess[sid] # None
  \/ \A r \in Reqs : req[r].pc \in {"idle", "done"} \/ req[r].sid # sid

\* the session middleware at the end of a response: a login saves the
\* session with cookie.expires = now + maxAge; a request that arrived on a
\* live session touches its record, which resets cookie.expires to
\* now + maxAge as well (no `rolling` option: the browser's cookie is not
\* re-sent); a destroyed session has no record
TouchSessions ==
  /\ now' = now
  /\ expires' = [s \in SIDs |->
       IF sess'[s] = None THEN 0
       ELSE IF \E r \in Reqs : Completes(r) /\ req'[r].sid = s /\ req'[r].user # None
         THEN now + MaxAge
       ELSE expires[s]]
  /\ created' = [s \in SIDs |->
       IF sess'[s] = None THEN 0
       ELSE IF sess[s] = None THEN now
       ELSE created[s]]

\* time passes; the store gives up a record once cookie.expires <= Date.now()
\* (MemoryStore drops it at the next lookup, which no request can tell apart)
Tick ==
  /\ now < MaxTicks * TickMs
  /\ now' = now + TickMs
  /\ sess' = [s \in SIDs |->
       IF sess[s] # None /\ expires[s] <= now' THEN None ELSE sess[s]]
  /\ expires' = [s \in SIDs |-> IF sess'[s] = None THEN 0 ELSE expires[s]]
  /\ created' = [s \in SIDs |-> IF sess'[s] = None THEN 0 ELSE created[s]]
  /\ UNCHANGED << organizations, users, orders, nextOrgId, nextUserId, req, started >>
  /\ UNCHANGED clientVars

\* ---------------------------------------------------------------- browser
\* the pages of the front end, before the browser has opened them
Pages == {1, 2}
Subs == {1, 2}
FilterKeys == {"from", "to", "category", "vendor"}

ClosedPage ==
  [variant |-> "none", pc |-> "closed", fetches |-> 0, status |-> 0,
   data |-> NoBody, location |-> "", els |-> FALSE, shown |-> None]

ClosedTxn ==
  [pc |-> "closed", currentPage |-> 0, currentFilters |-> [k \in {} |-> ""],
   inputs |-> [k \in FilterKeys |-> ""], sent |-> None, pending |-> 0,
   table |-> "none"]

ClosedChat ==
  [messages |-> << >>, nodes |-> 0, clock |-> 0, submitted |-> 0,
   subs |-> [s \in Subs |-> [pc |-> "idle", message |-> "", thinkingId |-> ""]],
   conversationHistory |-> << >>]

BrowserClosed ==
  /\ pages = [p \in Pages |-> ClosedPage]
  /\ txn = ClosedTxn
  /\ chat = ClosedChat

\* rows of table orders, which no route writes: some of each organization
OrderRows ==
  {[id |-> 1, organization_id |-> 1], [id |-> 2, organization_id |-> 1],
   [id |-> 3, organization_id |-> 2]}

\* a row of table users; no INSERT of the routes sets the role column
UserRow(id, orgId, name, email, password) ==
  [id |-> id, organization_id |-> orgId, name |-> name, email |-> email,
   password |-> password, role |-> NULL]

\* The database the server is started on: empty, or holding the rows of two
\* earlier registrations (Acme by Alice, Beta by Bob).
Init ==
  /\ \/ /\ organizations = {}
        /\ users = {}
        /\ nextOrgId = 1
        /\ nextUserId = 1
     \/ /\ organizations = {[id |-> 1, name |-> "Acme"], [id |-> 2, name |-> "Beta"]}
        /\ users = {UserRow(1, 1, "Alice", "a@acme.com", bcryptHash("secret123")),
                    UserRow(2, 2, "Bob", "b@beta.com", bcryptHash("hunter2"))}
        /\ nextOrgId = 3
        /\ nextUserId = 3
  /\ orders = OrderRows
  /\ sess = [s \in SIDs |-> None]
  /\ req = [r \in Reqs |-> Idle]
  /\ started = 0
  /\ now = 0
  /\ expires = [s \in SIDs |-> 0]
  /\ created = [s \in SIDs |-> 0]
  /\ BrowserClosed

\* ---------------------------------------------------------------- register
\* a body with every field filled in and matching passwords
RegisterFilled ==
  [businessName |-> "Acme", userName |-> "Alice", email |-> "a@acme.com",
   password |-> "secret123", confirmPassword |-> "secret123"]

RegisterBodies ==
  [businessName : BusinessNames, userName : {"Alice"}, email : Emails,
   password : {"secret123"}, confirmPassword : {"secret123"}]
  \cup [businessName : {"Acme"}, userName : {"Alice", Empty}, email : {"a@acme.com"},
        password : {"secret123"}, confirmPassword : {"hunter2"}]
  \cup {[RegisterFilled EXCEPT ![f] = Empty] :
          f \in {"businessName", "email", "password", "confirmPassword"}}

\* the validations with the test of one field left out
RegisterMissing_NoEmail(b) ==
  \/ b.businessName = Empty \/ b.userName = Empty
  \/ b.password = Empty \/ b.confirmPassword = Empty

\* the "Basic validations" of the registration endpoint
RegisterMissing(b) ==
  \/ b.businessName = Empty \/ b.userName = Empty \/ b.email = Empty
  \/ b.password = Empty \/ b.confirmPassword = Empty

\* the business-name lookup run on the users table: it never finds a row
OrgsByName_WrongTable(name) == {u \in users : u.name = name}

\* SELECT * FROM organizations WHERE name = $1
OrgsByName(name) == {o \in organizations : o.name = name}

\* an email lookup that never finds a row
UsersByEmail_None(email) == {}

\* SELECT * FROM users WHERE email = $1
UsersByEmail(email) == {u \in users : u.email = email}

\* POST /api/register up to the first await: validations, then the
\* business-name lookup
RegisterStart(r, b) ==
  /\ Free(r)
  /\ nextOrgId + InFlight("register") <= MaxOrgs
  /\ nextUserId + InFlight("register") + InFlight("users_create") <= MaxUsers
  /\ started' = started + 1
  /\ LET q == NewReq("register", 0, b) IN
     IF RegisterMissing(b)
       THEN req' = [Pending EXCEPT ![r] = Respond(q, 400, [error |-> "All fields are required"])]
     ELSE IF b.password # b.confirmPassword
       THEN req' = [Pending EXCEPT ![r] = Respond(q, 400, [error |-> "Passwords do not match"])]
     ELSE \E ok \in BOOLEAN :
       IF ~ok THEN req' = [Pending EXCEPT ![r] = ServerError(Query(q))]
       ELSE IF OrgsByName(b.businessName) # {}
         THEN req' = [Pending EXCEPT ![r] =
                Respond(Query(q), 400, [error |-> "Business name already exists"])]
       ELSE req' = [Pending EXCEPT ![r] = [Query(q) EXCEPT !.pc = "emailCheck"]]
  /\ UNCHANGED << organizations, users, orders, nextOrgId, nextUserId, sess >>
  /\ TouchSessions
  /\ UNCHANGED clientVars

\* the email lookup, then bcrypt.hash
RegisterEmailCheck(r) ==
  /\ req[r].kind = "register" /\ req[r].pc = "emailCheck"
  /\ LET q == Query(req[r]) IN
     \E ok \in BOOLEAN :
       IF ~ok THEN req' = [req EXCEPT ![r] = ServerError(q)]
       ELSE IF UsersByEmail(q.body.email) # {}
         THEN req' = [req EXCEPT ![r] = Respond(q, 400, [error |-> "Email already exists"])]
       ELSE req' = [req EXCEPT ![r] =
              [q EXCEPT !.pc = "orgInsert",
                        !.loc = [hashedPassword |-> bcryptHash(q.body.password),
                                 organizationId |-> NullId]]]
  /\ UNCHANGED << organizations, users, orders, nextOrgId, nextUserId, sess, started >>
  /\ TouchSessions
  /\ UNCHANGED clientVars

\* INSERT INTO organizations (name) VALUES ($1) RETURNING id
RegisterOrgInsert(r) ==
  /\ req[r].kind = "register" /\ req[r].pc = "orgInsert"
  /\ LET q == Query(req[r]) IN
     \E ok \in BOOLEAN :
       IF ~ok
         THEN /\ req' = [req EXCEPT ![r] = ServerError(q)]
              /\ UNCHANGED << organizations, nextOrgId >>
       ELSE /\ organizations' = organizations \cup
                 {[id |-> nextOrgId, name |-> q.body.businessName]}
            /\ nextOrgId' = nextOrgId + 1
            /\ req' = [req EXCEPT ![r] =
                 [q EXCEPT !.pc = "userInsert", !.loc.organizationId = nextOrgId]]
  /\ UNCHANGED << users, orders, nextUserId, sess, started >>
  /\ TouchSessions
  /\ UNCHANGED clientVars

\* the users table without its unique constraint on email
EmailTaken_Never(email, exceptId) == FALSE

\* users_email_key: UNIQUE (email)
EmailTaken(email, exceptId) == \E u \in users : u.email = email /\ u.id # exceptId

\* INSERT INTO users (organization_id, name, email, password), then 201
RegisterUserInsert(r) ==
  /\ req[r].kind = "register" /\ req[r].pc = "userInsert"
  /\ LET q == Query(req[r]) IN
     \E ok \in BOOLEAN :
       IF ~ok \/ EmailTaken(q.body.email, NullId)
         THEN /\ req' = [req EXCEPT ![r] = ServerError(q)]
              /\ UNCHANGED << users, nextUserId >>
       ELSE /\ users' = users \cup
                 {UserRow(nextUserId, q.loc.organizationId, q.body.userName,
                          q.body.email, q.loc.hashedPassword)}
            /\ nextUserId' = nextUserId + 1
            /\ req' = [req EXCEPT ![r] =
                 Respond(q, 201, [message |-> "Registration successful"])]
  /\ UNCHANGED << organizations, orders, nextOrgId, sess, started >>
  /\ TouchSessions
  /\ UNCHANGED clientVars

\* ---------------------------------------------------------------- login
LoginBodies ==
  [email : Emails, password : Passwords]
  \cup {[email |-> Empty, password |-> "secret123"], [email |-> "a@acme.com", password |-> Empty]}

\* a snapshot that leaves organization_id out
Snapshot_NoOrg(user) ==
  [id |-> user.id, name |-> user.name, email |-> user.email,
   organization_id |-> NullId, role |-> user.role]

\* the denormalized copy of a users row that login stores in req.session.user
Snapshot(user) ==
  [id |-> user.id, name |-> user.name, email |-> user.email,
   organization_id |-> user.organization_id, role |-> user.role]

\* POST /api/login up to the first await: validation, then SELECT by email
LoginStart(r, sid, b) ==
  /\ Free(r)
  /\ SessionID(sid)
  /\ started' = started + 1
  /\ LET q == NewReq("login", sid, b) IN
     IF b.email = Empty \/ b.password = Empty
       THEN req' = [Pending EXCEPT ![r] = Respond(q, 400, [error |-> "Email & password required"])]
     ELSE \E ok \in BOOLEAN :
       IF ~ok THEN req' = [Pending EXCEPT ![r] = ServerError(Query(q))]
       ELSE IF UsersByEmail(b.email) = {}
         THEN req' = [Pending EXCEPT ![r] =
                Respond([Query(q) EXCEPT !.loc = [rows |-> {}]], 400,
                        [error |-> "Invalid credentials"])]
       ELSE \E row \in UsersByEmail(b.email) :
              req' = [Pending EXCEPT ![r] =
                [Query(q) EXCEPT !.pc = "compare",
                                 !.loc = [rows |-> UsersByEmail(b.email), user |-> row]]]
  /\ UNCHANGED << organizations, users, orders, nextOrgId, nextUserId, sess >>
  /\ TouchSessions
  /\ UNCHANGED clientVars

\* the session a login writes: req.session of the request as it arrived
\* ("Simply overwrite session user data"), under the id it arrived with
LoginSessionID(q) == q.sid

\* a handler that assigns req.session.user before it compares the password
LoginSession_BeforeCompare(q, user, match) ==
  [sess EXCEPT ![LoginSessionID(q)] = Some(Snapshot(user))]

\* the store after the handler: req.session.user is assigned only behind both
\* `return res.status(400)` exits, and a handler that ends without the
\* assignment leaves the session as it was
LoginSession(q, user, match) ==
  IF match THEN [sess EXCEPT ![LoginSessionID(q)] = Some(Snapshot(user))] ELSE sess

\* bcrypt.compare, then req.session.user = {...} and the session is saved
\* with the response; bcrypt.compare rejects when the stored hash is null
LoginFinish(r) ==
  /\ req[r].kind = "login" /\ req[r].pc = "compare"
  /\ LET q == req[r]
         user == q.loc.user
         match == user.password # NULL /\ bcryptCompare(q.body.password, user.password) IN
     /\ sess' = LoginSession(q, user, match)
     /\ IF user.password = NULL
          THEN req' = [req EXCEPT ![r] = Respond(q, 500, [error |-> "Server error"])]
        ELSE IF ~match
          THEN req' = [req EXCEPT ![r] = Respond(q, 400, [error |-> "Invalid credentials"])]
        ELSE req' = [req EXCEPT ![r] =
               Respond([q EXCEPT !.user = Some(Snapshot(user))], 200,
                       [message |-> "Login successful"])]
  /\ UNCHANGED << organizations, users, orders, nextOrgId, nextUserId, started >>
  /\ TouchSessions
  /\ UNCHANGED clientVars

\* ---------------------------------------------------------------- logout
\* a logout that only clears the cookie and leaves the record in the store
DestroySession_Keep(sid) == sess

\* a logout that empties the whole store
DestroySession_All(sid) == [s \in SIDs |-> None]

\* req.session.destroy(): the store drops the record of this cookie
DestroySession(sid) == [sess EXCEPT ![sid] = None]

\* the callback without `return` in its error branch: after the 500 it goes
\* on to clearCookie and a second res.json
LogoutCallback_NoReturn(q, err) ==
  IF err
    THEN [Respond(q, 500, [error |-> "Logout failed"]) EXCEPT !.cleared = TRUE, !.nres = @ + 1]
  ELSE Respond([q EXCEPT !.cleared = TRUE], 200, [message |-> "Logged out successfully"])

\* a logout behind the guard of the protected routes
LogoutCallback_RequiresUser(q, err) ==
  IF q.user = None THEN Respond(q, 401, [error |-> "Unauthorized"])
  ELSE IF err THEN Respond(q, 500, [error |-> "Logout failed"])
  ELSE Respond([q EXCEPT !.cleared = TRUE], 200, [message |-> "Logged out successfully"])

\* the callback of req.session.destroy: 500 on an error; otherwise
\* res.clearCookie('connect.sid') and the 200 response
LogoutCallback(q, err) ==
  IF err THEN Respond(q, 500, [error |-> "Logout failed"])
  ELSE Respond([q EXCEPT !.cleared = TRUE], 200, [message |-> "Logged out successfully"])

\* POST /api/logout: req.session.destroy, then clearCookie and 200, or 500
\* when the store reports an error
Logout(r, sid) ==
  /\ Free(r)
  /\ SessionID(sid)
  /\ started' = started + 1
  /\ LET q == NewReq("logout", sid, NoBody) IN
     \E err \in BOOLEAN :
       /\ sess' = IF err THEN sess ELSE DestroySession(sid)
       /\ req' = [Pending EXCEPT ![r] = LogoutCallback(q, err)]
  /\ UNCHANGED << organizations, users, orders, nextOrgId, nextUserId >>
  /\ TouchSessions
  /\ UNCHANGED clientVars

\* ---------------------------------------------------------------- auth/current
\* GET /api/auth/current up to the await: the inline session check
CurrentStart(r, sid) ==
  /\ Free(r)
  /\ SessionID(sid)
  /\ started' = started + 1
  /\ LET q == NewReq("current", sid, NoBody) IN
     IF q.user = None
       THEN req' = [Pending EXCEPT ![r] = Respond(q, 401, [error |-> "Unauthorized"])]
     ELSE req' = [Pending EXCEPT ![r] = [q EXCEPT !.pc = "query"]]
  /\ UNCHANGED << organizations, users, orders, nextOrgId, nextUserId, sess >>
  /\ TouchSessions
  /\ UNCHANGED clientVars

\* /current answering name and email from the users row as it is now
CurrentUser_Refetched(u, organization) ==
  LET rows == {x \in users : x.id = u.id}
      row == IF rows = {} THEN u ELSE CHOOSE x \in rows : TRUE IN
  [id |-> u.id, name |-> row.name, email |-> row.email,
   organization_id |-> u.organization_id, role |-> u.role,
   organization_name |-> organization.name]

\* /current without the organization's name in its answer
CurrentUser_NoOrganization(u, organization) ==
  [id |-> u.id, name |-> u.name, email |-> u.email,
   organization_id |-> u.organization_id, role |-> u.role,
   organization_name |-> NULL]

\* what /current answers from req.session.user and the organization row
CurrentUser(u, organization) ==
  [id |-> u.id, name |-> u.name, email |-> u.email,
   organization_id |-> u.organization_id, role |-> u.role,
   organization_name |-> organization.name]

\* SELECT name FROM organizations WHERE id = $1, then the response;
\* organization.name throws when no row came back
CurrentQuery(r) ==
  /\ req[r].kind = "current" /\ req[r].pc = "query"
  /\ LET q == Query(req[r])
         u == q.user[1]
         rows == {o \in organizations : o.id = u.organization_id} IN
     \E ok \in BOOLEAN :
       IF ~ok THEN req' = [req EXCEPT ![r] = ServerError(q)]
       ELSE IF rows = {}
         THEN req' = [req EXCEPT ![r] = Respond(q, 500, [error |-> "Server error"])]
       ELSE \E organization \in rows :
              req' = [req EXCEPT ![r] = Respond(q, 200, [user |-> CurrentUser(u, organization)])]
  /\ UNCHANGED << organizations, users, orders, nextOrgId, nextUserId, sess, started >>
  /\ TouchSessions
  /\ UNCHANGED clientVars

\* ---------------------------------------------------------------- dashboard
\* the guard with its test lost: next() for every request
ensureAuthenticated_Always(user) == TRUE

\* a guard that also looks the session's user up in the users table
ensureAuthenticated_RowExists(user) ==
  user # None /\ \E u \in users : u.id = user[1].id

\* the guard of the protected routes: next() when the session has a user
ensureAuthenticated(user) == user # None

\* the query without its WHERE clause
OrdersOf_Unscoped(orgId) == orders

\* SELECT * FROM orders WHERE organization_id=$1
OrdersOf(orgId) == {o \in orders : o.organization_id = orgId}

\* GET /api/dashboard/data up to the await: ensureAuthenticated, then orgId;
\* reading organization_id of an absent user throws before the try block
DashboardStart(r, sid) ==
  /\ Free(r)
  /\ SessionID(sid)
  /\ started' = started + 1
  /\ LET q == NewReq("dashboard", sid, NoBody) IN
     IF ~ensureAuthenticated(q.user)
       THEN req' = [Pending EXCEPT ![r] = Respond(q, 401, [error |-> "Unauthorized"])]
     ELSE IF q.user = None
       THEN req' = [Pending EXCEPT ![r] = Respond(q, 500, [error |-> "TypeError"])]
     ELSE req' = [Pending EXCEPT ![r] =
            [q EXCEPT !.pc = "query", !.loc = [orgId |-> q.user[1].organization_id]]]
  /\ UNCHANGED << organizations, users, orders, nextOrgId, nextUserId, sess >>
  /\ TouchSessions
  /\ UNCHANGED clientVars

DashboardQuery(r) ==
  /\ req[r].kind = "dashboard" /\ req[r].pc = "query"
  /\ LET q == Query(req[r]) IN
     \E ok \in BOOLEAN :
       IF ~ok THEN req' = [req EXCEPT ![r] = ServerError(q)]
       ELSE req' = [req EXCEPT ![r] = Respond(q, 200, [rows |-> OrdersOf(q.loc.orgId)])]
  /\ UNCHANGED << organizations, users, orders, nextOrgId, nextUserId, sess, started >>
  /\ TouchSessions
  /\ UNCHANGED clientVars

\* ---------------------------------------------------------------- /api/users
UserBodies == [name : {"Bob"}, email : Emails]
\* req.params.id: the id of every row ever inserted, and one that matches no row
UserIds == 1..nextUserId

\* the list restricted to the organizations that have a logged-in session
UsersSelectAll_Scoped ==
  {u \in users : \E s \in SIDs : /\ sess[s] # None
                                  /\ sess[s][1].organization_id = u.organization_id}

\* SELECT * FROM users ORDER BY id ASC
UsersSelectAll == users

\* GET /api/users
UsersList(r, sid) ==
  /\ Free(r)
  /\ SessionID(sid)
  /\ started' = started + 1
  /\ LET q == Query(NewReq("users_list", sid, NoBody)) IN
     \E ok \in BOOLEAN :
       IF ~ok THEN req' = [Pending EXCEPT ![r] = ServerError(q)]
       ELSE req' = [Pending EXCEPT ![r] = Respond(q, 200, [rows |-> UsersSelectAll])]
  /\ UNCHANGED << organizations, users, orders, nextOrgId, nextUserId, sess >>
  /\ TouchSessions
  /\ UNCHANGED clientVars

\* POST /api/users: INSERT INTO users (name, email) VALUES ($1, $2)
UsersCreate(r, sid, b) ==
  /\ Free(r)
  /\ SessionID(sid)
  /\ nextUserId + InFlight("register") <= MaxUsers
  /\ started' = started + 1
  /\ LET q == Query(NewReq("users_create", sid, b))
         row == UserRow(nextUserId, NullId, b.name, b.email, NULL) IN
     \E ok \in BOOLEAN :
       IF ~ok \/ EmailTaken(b.email, NullId)
         THEN /\ req' = [Pending EXCEPT ![r] = ServerError(q)]
              /\ UNCHANGED << users, nextUserId >>
       ELSE /\ users' = users \cup {row}
            /\ nextUserId' = nextUserId + 1
            /\ req' = [Pending EXCEPT ![r] = Respond(q, 200, [rows |-> {row}])]
  /\ UNCHANGED << organizations, orders, nextOrgId, sess >>
  /\ TouchSessions
  /\ UNCHANGED clientVars

\* UPDATE users SET name = $1, email = $2 WHERE id = $3 RETURNING *
UsersUpdateRows(id, b) ==
  {IF u.id = id THEN [u EXCEPT !.name = b.name, !.email = b.email] ELSE u : u \in users}

\* PUT /api/users/:id
UsersUpdate(r, sid, id, b) ==
  /\ Free(r)
  /\ SessionID(sid)
  /\ started' = started + 1
  /\ LET q == Query(NewReq("users_update", sid, [id |-> id, name |-> b.name, email |-> b.email]))
         hit == {u \in users : u.id = id} IN
     \E ok \in BOOLEAN :
       IF ~ok \/ (hit # {} /\ EmailTaken(b.email, id))
         THEN /\ req' = [Pending EXCEPT ![r] = ServerError(q)]
              /\ UNCHANGED users
       ELSE /\ users' = UsersUpdateRows(id, b)
            /\ req' = [Pending EXCEPT ![r] =
                 Respond(q, 200, [rows |-> {u \in users' : u.id = id}])]
  /\ UNCHANGED << organizations, orders, nextOrgId, nextUserId, sess >>
  /\ TouchSessions
  /\ UNCHANGED clientVars

\* the DELETE without its WHERE clause
UsersDeleteRows_All(id) == {}

\* DELETE FROM users WHERE id = $1
UsersDeleteRows(id) == {u \in users : u.id # id}

\* DELETE /api/users/:id
UsersDelete(r, sid, id) ==
  /\ Free(r)
  /\ SessionID(sid)
  /\ started' = started + 1
  /\ LET q == Query(NewReq("users_delete", sid, [id |-> id])) IN
     \E ok \in BOOLEAN :
       IF ~ok
         THEN /\ req' = [Pending EXCEPT ![r] = ServerError(q)]
              /\ UNCHANGED users
       ELSE /\ users' = UsersDeleteRows(id)
            /\ req' = [Pending EXCEPT ![r] = Respond(q, 200, [message |-> "User deleted"])]
  /\ UNCHANGED << organizations, orders, nextOrgId, nextUserId, sess >>
  /\ TouchSessions
  /\ UNCHANGED clientVars

Next ==
  \/ \E r \in Reqs, b \in RegisterBodies : RegisterStart(r, b)
  \/ \E r \in Reqs : RegisterEmailCheck(r)
  \/ \E r \in Reqs : RegisterOrgInsert(r)
  \/ \E r \in Reqs : RegisterUserInsert(r)
  \/ \E r \in Reqs, sid \in SIDs, b \in LoginBodies : LoginStart(r, sid, b)
  \/ \E r \in Reqs : LoginFinish(r)
  \/ \E r \in Reqs, sid \in SIDs : Logout(r, sid)
  \/ \E r \in Reqs, sid \in SIDs : CurrentStart(r, sid)
  \/ \E r \in Reqs : CurrentQuery(r)
  \/ \E r \in Reqs, sid \in SIDs : DashboardStart(r, sid)
  \/ \E r \in Reqs : DashboardQuery(r)
  \/ \E r \in Reqs, sid \in SIDs : UsersList(r, sid)
  \/ \E r \in Reqs, sid \in SIDs, b \in UserBodies : UsersCreate(r, sid, b)
  \/ \E r \in Reqs, sid \in SIDs, id \in UserIds, b \in UserBodies : UsersUpdate(r, sid, id, b)
  \/ \E r \in Reqs, sid \in SIDs, id \in UserIds : UsersDelete(r, sid, id)

Spec == Init /\ [][Next]_vars

\* ---------------------------------------------------------------- session lifetime
\* The server with its clock running, started on the registered database and
\* serving logins and the two protected routes; no logout is requested.
InitTTL == Init /\ users # {}

NextTTL ==
  \/ Tick
  \/ \E r \in Reqs, sid \in SIDs, b \in LoginBodies : LoginStart(r, sid, b)
  \/ \E r \in Reqs : LoginFinish(r)
  \/ \E r \in Reqs, sid \in SIDs : CurrentStart(r, sid)
  \/ \E r \in Reqs : CurrentQuery(r)
  \/ \E r \in Reqs, sid \in SIDs : DashboardStart(r, sid)
  \/ \E r \in Reqs : DashboardQuery(r)

SpecTTL == InitTTL /\ [][NextTTL]_vars


\* ---------------------------------------------------------------- one client
\* One client on a new server with an empty database: it registers, logs in
\* with the email and password it registered, asks /current, logs out and
\* asks /current again, each request sent when the one before it was
\* answered as expected.
FlowStages == << "register", "login", "current", "logout", "current" >>

\* the five requests are counted against the budget of MaxRequests, so the
\* count starts below 0
FlowStart == MaxRequests - Len(FlowStages)
FlowStage == started - FlowStart

FlowBodies ==
  {[businessName |-> bn, userName |-> un, email |-> e, password |-> p,
    confirmPassword |-> p] :
      bn \in BusinessNames, un \in UserNames, e \in Emails, p \in Passwords}

InitFlow ==
  /\ organizations = {}
  /\ users = {}
  /\ nextOrgId = 1
  /\ nextUserId = 1
  /\ orders = OrderRows
  /\ sess = [s \in SIDs |-> None]
  /\ req = [r \in Reqs |-> Idle]
  /\ started = FlowStart
  /\ now = 0
  /\ expires = [s \in SIDs |-> 0]
  /\ created = [s \in SIDs |-> 0]
  /\ BrowserClosed

NextFlow ==
  \/ /\ FlowStage = 0
     /\ \E b \in FlowBodies : RegisterStart(1, b)
  \/ RegisterEmailCheck(1)
  \/ RegisterOrgInsert(1)
  \/ RegisterUserInsert(1)
  \/ /\ FlowStage = 1 /\ req[1].status = 201
     /\ \E sid \in SIDs :
          LoginStart(1, sid, [email |-> req[1].body.email,
                              password |-> req[1].body.password])
  \/ LoginFinish(1)
  \/ /\ FlowStage = 2 /\ req[1].status = 200
     /\ CurrentStart(1, req[1].sid)
  \/ CurrentQuery(1)
  \/ /\ FlowStage = 3 /\ req[1].status = 200
     /\ Logout(1, req[1].sid)
  \/ /\ FlowStage = 4 /\ req[1].status = 200
     /\ CurrentStart(1, req[1].sid)

SpecFlow == InitFlow /\ [][NextFlow]_vars

\* ---------------------------------------------------------------- session check of the pages
\* The variants of the client's session check: loadCurrentUser of script.js
\* (async/await, tests response.ok), the navbar and sidebar scripts (promise
\* chain, test data.user and then write the user into the page) and the
\* plain check of the other pages (promise chain, test data.user only).
Variants == {"loadCurrentUser", "navbar", "sidebar", "page"}

\* what GET /api/auth/current answers: 401 from the handler's guard, 500 from
\* its catch block, 200 with the session's user
CurrentAnswers ==
  {[status |-> 401, data |-> [error |-> "Unauthorized"]],
   [status |-> 500, data |-> [error |-> "Server error"]]}
  \cup {[status |-> 200,
         data |-> [user |-> CurrentUser(Snapshot(UserRow(1, 1, n, "a@acme.com", NULL)),
                                        [id |-> 1, name |-> "Acme"])]] :
          n \in UserNames}

\* fetch rejected: no response at all
NetworkError == 0

\* response.ok
Ok(status) == status \in 200..299

\* data.k is not undefined
Defined(data, k) == k \in DOMAIN data

\* the test of the promise chains with its outcome fixed: a user every time
HasUser_Always(data) == TRUE

\* the test of the promise chains: !data.user is false
HasUser(data) == Defined(data, "user")

\* the browser opens a page of variant v; its script issues the one fetch of
\* /api/auth/current; els: the page has the elements the script writes to
PageLoad(p) ==
  /\ pages[p].pc = "closed"
  /\ \E v \in Variants, els \in BOOLEAN :
       pages' = [pages EXCEPT ![p] =
         [ClosedPage EXCEPT !.variant = v, !.els = els, !.pc = "fetch",
                            !.fetches = 1, !.location = "page.html"]]
  /\ UNCHANGED << serverVars, txn, chat >>

\* the fetch settles: fulfilled with an answer of the endpoint, whatever its
\* status, or rejected (the catch runs next)
FetchSettles(p) ==
  /\ pages[p].pc = "fetch"
  /\ \/ \E a \in CurrentAnswers :
          pages' = [pages EXCEPT ![p] =
            [@ EXCEPT !.status = a.status, !.data = a.data, !.pc = "then"]]
     \/ pages' = [pages EXCEPT ![p] = [@ EXCEPT !.status = NetworkError, !.pc = "catch"]]
  /\ UNCHANGED << serverVars, txn, chat >>

\* the code after the fetch, up to its end or to the TypeError it throws
\* (reading a property of undefined, or writing one of null)
Then(p) ==
  /\ pages[p].pc = "then"
  /\ LET g == pages[p]
         login == [g EXCEPT !.location = "login.html"]
         checked == IF HasUser(g.data) THEN g ELSE login IN
     pages' = [pages EXCEPT ![p] =
       CASE g.variant = "loadCurrentUser" ->
              IF ~Ok(g.status) THEN [login EXCEPT !.pc = "done"]
              ELSE IF ~Defined(g.data, "user") \/ ~g.els THEN [g EXCEPT !.pc = "catch"]
              ELSE [g EXCEPT !.pc = "done", !.shown = Some(g.data.user.name)]
         [] g.variant = "navbar" ->
              IF ~Defined(g.data, "user") \/ ~g.els THEN [checked EXCEPT !.pc = "catch"]
              ELSE [checked EXCEPT !.pc = "done", !.shown = Some(g.data.user.name)]
         [] g.variant = "sidebar" ->
              IF ~g.els THEN [checked EXCEPT !.pc = "done"]
              ELSE IF ~Defined(g.data, "user") THEN [checked EXCEPT !.pc = "catch"]
              ELSE [checked EXCEPT !.pc = "done",
                                   !.shown = Some(g.data.user.organization_name)]
         [] OTHER -> [checked EXCEPT !.pc = "done"]]
  /\ UNCHANGED << serverVars, txn, chat >>

\* the catch of the check: window.location.href = 'login.html'
Catch(p) ==
  /\ pages[p].pc = "catch"
  /\ pages' = [pages EXCEPT ![p] = [@ EXCEPT !.location = "login.html", !.pc = "done"]]
  /\ UNCHANGED << serverVars, txn, chat >>

InitPages == InitTTL

NextPages ==
  \/ \E p \in Pages : PageLoad(p)
  \/ \E p \in Pages : FetchSettles(p)
  \/ \E p \in Pages : Then(p)
  \/ \E p \in Pages : Catch(p)

SpecPages == InitPages /\ [][NextPages]_vars

\* a fetch settles and the callbacks of a settled promise run
SpecPagesLive ==
  SpecPages /\ \A p \in Pages : WF_vars(FetchSettles(p) \/ Then(p) \/ Catch(p))

\* ---------------------------------------------------------------- transactions page
transactionsPerPage == 20

\* what the user can have in the four filter inputs ("": left empty)
FilterValues ==
  [from |-> {"", "2024-01-01"}, to |-> {"", "2024-12-31"},
   category |-> {"", "Utilities"}, vendor |-> {"", "Tesco"}]

\* a URL without a query string
NoParams == [k \in {} |-> ""]

\* APIConfig: the deployed API and the paths of its endpoints
baseURL == "https://xfnv4mgb64.execute-api.ap-southeast-1.amazonaws.com/prod"
endpoints == [transactions |-> "/transactions", aiChat |-> "/ai-chat"]

\* APIConfig.getEndpoint(name): baseURL + endpoints[name], no query string
getEndpoint(name) == [path |-> baseURL \o endpoints[name], query |-> NoParams]

\* APIConfig.apiCall(endpoint, options): the request that fetch sends
apiCall(endpoint, options) ==
  [url |-> getEndpoint(endpoint), method |-> options.method]

\* new URLSearchParams({limit, offset, ...filters}): every value as a string
URLSearchParams(limit, offset, filters) ==
  [k \in {"limit", "offset"} \cup DOMAIN filters |->
     IF k \in DOMAIN filters THEN filters[k]
     ELSE IF k = "limit" THEN ToString(limit)
     ELSE ToString(offset)]

\* the request loadTransactions(page) sends: it builds params and url from
\* the page and currentFilters, and then calls API.apiCall('transactions')
loadTransactions(page, currentFilters) ==
  LET params == URLSearchParams(transactionsPerPage, page * transactionsPerPage,
                                currentFilters)
      url == [path |-> "transactions", query |-> params] IN
  apiCall("transactions", [method |-> "GET"])

\* currentPage and currentFilters set, then loadTransactions(currentPage)
\* up to its await
Load(page, filters, inputs) ==
  /\ txn.pending < MaxPending
  /\ txn' = [txn EXCEPT !.pc = "open", !.currentPage = page,
                        !.currentFilters = filters, !.inputs = inputs,
                        !.sent = Some(loadTransactions(page, filters)),
                        !.pending = @ + 1, !.table = "loading"]
  /\ UNCHANGED << serverVars, pages, chat >>

\* DOMContentLoaded: initializeTransactionsPage, which calls loadTransactions()
TxnOpen ==
  /\ txn.pc = "closed"
  /\ Load(0, txn.currentFilters, txn.inputs)

\* the user edits one of the filter inputs
TxnInput ==
  /\ txn.pc = "open"
  /\ \E k \in FilterKeys : \E v \in FilterValues[k] :
       /\ txn.inputs[k] # v
       /\ txn' = [txn EXCEPT !.inputs[k] = v]
  /\ UNCHANGED << serverVars, pages, chat >>

\* changePage(newPage), from the Previous and Next buttons
changePage ==
  /\ txn.pc = "open"
  /\ \E newPage \in {txn.currentPage - 1, txn.currentPage + 1} :
       /\ newPage >= 0
       /\ newPage <= MaxPage
       /\ Load(newPage, txn.currentFilters, txn.inputs)

\* applyFilters(): the non-empty inputs become currentFilters, page 0
applyFilters ==
  /\ txn.pc = "open"
  /\ Load(0, [k \in {x \in FilterKeys : txn.inputs[x] # ""} |-> txn.inputs[k]],
          txn.inputs)

\* clearFilters(): inputs emptied, currentFilters = {}, page 0
clearFilters ==
  /\ txn.pc = "open"
  /\ Load(0, NoParams, [k \in FilterKeys |-> ""])

\* a request of loadTransactions is answered: the table shows the items, or
\* the catch block empties it
TxnSettles ==
  /\ txn.pending > 0
  /\ \E ok \in BOOLEAN :
       txn' = [txn EXCEPT !.pending = @ - 1,
                          !.table = IF ok THEN "items" ELSE "empty"]
  /\ UNCHANGED << serverVars, pages, chat >>

InitTxn == InitTTL

NextTxn ==
  \/ TxnOpen
  \/ TxnInput
  \/ changePage
  \/ applyFilters
  \/ clearFilters
  \/ TxnSettles

SpecTxn == InitTxn /\ [][NextTxn]_vars

\* ---------------------------------------------------------------- AI chat page
\* what the user types (trimmed, not empty)
ChatInputs == {"hello", "tax?"}

\* 'msg-' + Date.now()
MessageId(t) == "msg-" \o ToString(t)

\* addMessageToChat(role, content, isTemporary) at time t: a new element,
\* appended to #chatMessages; the element's id is all the caller gets back
addMessageToChat(c, role, content, isTemporary, t) ==
  [c EXCEPT !.nodes = @ + 1,
            !.messages = Append(@, [node |-> c.nodes + 1, id |-> MessageId(t),
                                    role |-> role, content |-> content,
                                    temporary |-> isTemporary])]

\* removeMessage(messageId): document.getElementById finds the first element
\* of the document with that id; it is removed when there is one
removeMessage(c, messageId) ==
  LET found == {i \in DOMAIN c.messages : c.messages[i].id = messageId} IN
  IF found = {} THEN c
  ELSE LET i == CHOOSE x \in found : \A y \in found : x <= y IN
       [c EXCEPT !.messages = SubSeq(@, 1, i - 1) \o SubSeq(@, i + 1, Len(@))]

\* a millisecond passes
ChatTick ==
  /\ chat.clock < MaxClock
  /\ chat' = [chat EXCEPT !.clock = @ + 1]
  /\ UNCHANGED << serverVars, pages, txn >>

\* handleChatSubmit up to its await: the user's message is added, then the
\* 'Thinking...' indicator, d milliseconds later; the submit button is
\* disabled, the Enter key is not, so submissions can overlap
handleChatSubmit(s) ==
  /\ chat.subs[s].pc = "idle"
  /\ chat.submitted < MaxSubmits
  /\ \E message \in ChatInputs, d \in {0, 1} :
       /\ chat.clock + d <= MaxClock
       /\ LET c1 == addMessageToChat(chat, "user", message, FALSE, chat.clock)
              c2 == addMessageToChat(c1, "assistant", "Thinking...", TRUE,
                                     chat.clock + d) IN
          chat' = [c2 EXCEPT !.clock = chat.clock + d,
                             !.submitted = @ + 1,
                             !.subs[s] = [pc |-> "await", message |-> message,
                                          thinkingId |-> MessageId(chat.clock + d)]]
  /\ UNCHANGED << serverVars, pages, txn >>

\* the call of the AI chat endpoint is answered: the indicator is removed
\* and the answer added and recorded; or the call failed, and the catch
\* block adds its apology
ChatSettles(s) ==
  /\ chat.subs[s].pc = "await"
  /\ LET sub == chat.subs[s]
         idle == [pc |-> "idle", message |-> "", thinkingId |-> ""] IN
     \E ok \in BOOLEAN :
       IF ok
         THEN LET c1 == removeMessage(chat, sub.thinkingId)
                  c2 == addMessageToChat(c1, "assistant", "answer", FALSE, chat.clock) IN
              chat' = [c2 EXCEPT !.subs[s] = idle,
                                 !.conversationHistory =
                                    @ \o << [role |-> "user", content |-> sub.message],
                                            [role |-> "assistant", content |-> "answer"] >>]
       ELSE chat' = [addMessageToChat(chat, "assistant",
                                      "Sorry, I encountered an error. Please try again.",
                                      FALSE, chat.clock)
                       EXCEPT !.subs[s] = idle]
  /\ UNCHANGED << serverVars, pages, txn >>

InitChat == InitTTL

NextChat ==
  \/ ChatTick
  \/ \E s \in Subs : handleChatSubmit(s)
  \/ \E s \in Subs : ChatSettles(s)

SpecChat == InitChat /\ [][NextChat]_vars

\* ================================================================ properties
Protected == {"current", "dashboard"}

Unauthorized == [error |-> "Unauthorized"]

\* C1: a request to a protected route (GET /api/dashboard/data, GET
\* /api/auth/current) that arrives on a session without a user is answered
\* 401 Unauthorized at once, and no database query is issued for it.
C1_UnauthorizedWithoutUser ==
  [][\A r \in Reqs :
       (Starts(r) /\ req'[r].kind \in Protected /\ sess[req'[r].sid] = None)
         => /\ req'[r].pc = "done"
            /\ req'[r].status = 401
            /\ req'[r].out = Unauthorized
            /\ req'[r].nq = 0]_vars

\* a dashboard request was refused on a session without a user
C1_Witness ==
  \E r \in Reqs :
    /\ req[r].kind = "dashboard" /\ req[r].pc = "done"
    /\ req[r].user = None /\ sess[req[r].sid] = None
    /\ req[r].status = 401 /\ req[r].nq = 0

\* C2: a successful logout leaves the session without a user; a session
\* without a user gets one only by a successful login on it; and a protected
\* request arriving on a session without a user is answered 401.  Hence after
\* a successful logout every later protected request with the old cookie is
\* answered 401 until a login succeeds on that session.
C2_LogoutThenUnauthorized ==
  [][\A s \in SIDs :
       /\ \A r \in Reqs :
            (Completes(r) /\ req'[r].kind = "logout" /\ req'[r].sid = s
               /\ req'[r].status = 200) => sess'[s] = None
       /\ (sess[s] = None /\ sess'[s] # None)
            => \E r \in Reqs : /\ Completes(r) /\ req'[r].kind = "login"
                               /\ req'[r].sid = s /\ req'[r].status = 200
       /\ \A r \in Reqs :
            (Starts(r) /\ req'[r].kind \in Protected /\ req'[r].sid = s
               /\ sess[s] = None) => req'[r].status = 401]_vars

\* a logout has just succeeded on a session that held a user
C2_Witness ==
  \E r \in Reqs :
    /\ req[r].kind = "logout" /\ req[r].pc = "done" /\ req[r].status = 200
    /\ req[r].user # None /\ sess[req[r].sid] = None

\* the users rows a login request has seen that carry its email and whose
\* stored hash is the hash of its password: the row it read at LoginStart when
\* the step is LoginFinish, the table itself when the step is LoginStart
C3_Matching(r) ==
  LET b == req'[r].body
      seen == IF req[r].kind = "login" /\ req[r].pc = "compare"
                THEN {req[r].loc.user} ELSE users IN
  {u \in seen : u.email = b.email /\ u.password = bcryptHash(b.password)}

\* C3: a login is answered 200 exactly when email and password are
\* non-empty and the users row read for that email stores the hash of that
\* password (a lookup the database rejects reads no row and is answered 500);
\* the row read is a row of the table with that email; on 200 the session
\* holds that row's id, name, email, organization_id and role; and a session
\* comes to hold a snapshot only in such a step.
C3_LoginIff ==
  [][/\ \A r \in Reqs :
          (Completes(r) /\ req'[r].kind = "login") =>
            /\ req'[r].status = 200 <=>
                 /\ req'[r].body.email # Empty /\ req'[r].body.password # Empty
                 /\ ~req'[r].dbfail
                 /\ C3_Matching(r) # {}
            /\ req'[r].status = 200 =>
                 /\ req[r].pc = "compare"
                 /\ sess'[req'[r].sid] # None
                 /\ LET u == sess'[req'[r].sid][1]
                        row == req[r].loc.user IN
                    /\ u.id = row.id /\ u.name = row.name /\ u.email = row.email
                    /\ u.organization_id = row.organization_id /\ u.role = row.role
     /\ \A r \in Reqs :
          (Starts(r) /\ req'[r].kind = "login" /\ req'[r].pc = "compare") =>
            /\ req'[r].loc.user \in users
            /\ req'[r].loc.user.email = req'[r].body.email
     /\ \A s \in SIDs :
          (sess'[s] # sess[s] /\ sess'[s] # None) =>
            \E r \in Reqs : /\ Completes(r) /\ req'[r].kind = "login"
                            /\ req'[r].sid = s /\ req'[r].status = 200]_vars

\* a login has just succeeded and the session holds the snapshot of its row
C3_Witness ==
  \E r \in Reqs :
    /\ req[r].kind = "login" /\ req[r].pc = "done" /\ req[r].status = 200
    /\ sess[req[r].sid] # None
    /\ sess[req[r].sid][1].email = req[r].body.email
    /\ \E u \in users : u.id = sess[req[r].sid][1].id

\* a login whose lookup was answered
C4_Answered(q) == q.kind = "login" /\ q.pc = "done" /\ q.nq = 1 /\ ~q.dbfail

\* ... with an existing email and a password that is not the row's
C4_WrongPassword(q) ==
  /\ C4_Answered(q) /\ q.loc.rows # {}
  /\ \A u \in q.loc.rows : u.password # bcryptHash(q.body.password)

\* ... with an email that matches no user
C4_NoSuchEmail(q) == C4_Answered(q) /\ q.loc.rows = {}

\* C4: a login with an existing email and a wrong password and a login with
\* an email that matches no user get the same status and the same body.
C4_Indistinguishable ==
  \A r1, r2 \in Reqs :
    (C4_WrongPassword(req[r1]) /\ C4_NoSuchEmail(req[r2]))
      => /\ req[r1].status = req[r2].status
         /\ req[r1].out = req[r2].out

\* C5: GET /api/auth/current answers 200 with the id, name, email,
\* organization_id and role of the snapshot the session held when the request
\* arrived (a lookup the database rejects is answered 500), whatever the users
\* row holds by then; and a session changes only when a login or a logout
\* succeeds on it, never by a write to the users table.
C5_SnapshotNotRefreshed ==
  [][/\ \A r \in Reqs :
          (Starts(r) /\ req'[r].kind = "current") => req'[r].user = sess[req'[r].sid]
     /\ \A r \in Reqs :
          (Completes(r) /\ req'[r].kind = "current" /\ req[r].pc = "query") =>
            /\ req'[r].status = IF req'[r].dbfail THEN 500 ELSE 200
            /\ req'[r].status = 200 =>
                 LET u == req[r].user[1]
                     o == req'[r].out.user IN
                 /\ o.id = u.id /\ o.name = u.name /\ o.email = u.email
                 /\ o.organization_id = u.organization_id /\ o.role = u.role
     /\ \A s \in SIDs :
          sess'[s] # sess[s] =>
            \E r \in Reqs : /\ Completes(r) /\ req'[r].kind \in {"login", "logout"}
                            /\ req'[r].sid = s /\ req'[r].status = 200]_vars

\* /current has answered with a snapshot whose users row was changed by
\* PUT /api/users/:id after the login
C5_Witness ==
  \E r \in Reqs :
    /\ req[r].kind = "current" /\ req[r].pc = "done" /\ req[r].status = 200
    /\ \E u \in users : /\ u.id = req[r].out.user.id
                        /\ u.name # req[r].out.user.name

\* C6: every row GET /api/dashboard/data returns carries the
\* organization_id of the session the request arrived on.
C6_TenantIsolation ==
  \A r \in Reqs :
    (req[r].kind = "dashboard" /\ req[r].pc = "done" /\ req[r].status = 200)
      => \A row \in req[r].out.rows :
           row.organization_id = req[r].user[1].organization_id

\* the dashboard has returned rows while orders holds rows of another
\* organization and another session is logged in to another organization
C6_Witness ==
  \E r \in Reqs :
    /\ req[r].kind = "dashboard" /\ req[r].pc = "done" /\ req[r].status = 200
    /\ req[r].out.rows # {}
    /\ \E o \in orders : o.organization_id # req[r].user[1].organization_id
    /\ \E s \in SIDs : /\ sess[s] # None
                       /\ sess[s][1].organization_id # req[r].user[1].organization_id

\* C7: every row a /api/users route returns or writes for a caller with a
\* session user belongs to the organization of that session.
C7_EveryHandlerScoped ==
  \A r \in Reqs :
    (req[r].kind \in {"users_list", "users_create", "users_update"}
       /\ req[r].pc = "done" /\ req[r].status = 200 /\ req[r].user # None)
      => \A row \in req[r].out.rows :
           row.organization_id = req[r].user[1].organization_id

\* C8: when a registration request is answered, with any status, the
\* organization row it inserted (if any) has its user row.
C8_RegisterAtomic ==
  [][\A r \in Reqs :
       (Completes(r) /\ req'[r].kind = "register" /\ req[r].pc = "userInsert")
         => \E u \in users' : u.organization_id = req[r].loc.organizationId]_vars

\* C9: no two organization rows have the same name.
C9_OrgNamesUnique ==
  \A o1, o2 \in organizations : o1.name = o2.name => o1.id = o2.id

\* C10: a registration whose businessName is the name of an existing
\* organization when its lookup runs is answered 400 at once (500 when the
\* database rejects the lookup) and creates no organization and no user row,
\* however often it is repeated.
C10_DuplicateOrgRejected ==
  [][\A r \in Reqs :
       (Starts(r) /\ req'[r].kind = "register"
          /\ \E o \in organizations : o.name = req'[r].body.businessName)
         => /\ req'[r].pc = "done"
            /\ req'[r].status = IF req'[r].dbfail THEN 500 ELSE 400
            /\ organizations' = organizations
            /\ users' = users
            /\ nextOrgId' = nextOrgId /\ nextUserId' = nextUserId]_vars

\* a registration with valid fields was refused because the business name
\* exists
C10_Witness ==
  \E r \in Reqs :
    /\ req[r].kind = "register" /\ req[r].pc = "done" /\ req[r].status = 400
    /\ req[r].out = [error |-> "Business name already exists"]
    /\ \E o \in organizations : o.name = req[r].body.businessName

\* C11: a registration with an empty field, or whose password and
\* confirmPassword differ, is answered 400 in the step it arrives, with one
\* response and before any database query, and no organizations or users row
\* is created.
C11_InvalidRegistrationRejected ==
  [][\A r \in Reqs :
       (Starts(r) /\ req'[r].kind = "register"
          /\ LET b == req'[r].body IN
             \/ \E f \in DOMAIN b : b[f] = Empty
             \/ b.password # b.confirmPassword)
         => /\ req'[r].pc = "done"
            /\ req'[r].status = 400
            /\ req'[r].nq = 0 /\ req'[r].nres = 1
            /\ organizations' = organizations /\ users' = users
            /\ nextOrgId' = nextOrgId /\ nextUserId' = nextUserId]_vars

\* a registration whose only fault is its empty email was refused without a
\* query
C11_Witness ==
  \E r \in Reqs :
    /\ req[r].kind = "register" /\ req[r].pc = "done"
    /\ req[r].body = [RegisterFilled EXCEPT !.email = Empty]
    /\ req[r].status = 400 /\ req[r].nq = 0

\* C12: no two users rows carry the same email, in every reachable state:
\* whatever registrations, POST /api/users and PUT /api/users/:id requests
\* ran, and however they interleaved.
C12_EmailUnique ==
  \A u1, u2 \in users : u1.email = u2.email => u1.id = u2.id

\* a registration passed its email lookup, another request then stored that
\* email, and the registration's own INSERT INTO users was refused
C12_Witness ==
  \E r \in Reqs :
    /\ req[r].kind = "register" /\ req[r].pc = "done"
    /\ req[r].nq = 4 /\ req[r].status = 500
    /\ \E u \in users : u.email = req[r].body.email

\* C13: every users row has an organization_id that is not null and is the
\* id of an organizations row.
C13_UserHasOrganization ==
  \A u \in users :
    /\ u.organization_id # NullId
    /\ \E o \in organizations : o.id = u.organization_id

\* C14: a login answered 200 read a users row whose organization_id is not
\* null and leaves that organization_id in the session (so a login on a row
\* without an organization is never answered 200), and every session that
\* holds a snapshot holds a non-null organization_id.
C14_SessionHasOrganization ==
  [][/\ \A r \in Reqs :
          (Completes(r) /\ req'[r].kind = "login" /\ req'[r].status = 200) =>
            /\ req[r].loc.user.organization_id # NullId
            /\ sess'[req'[r].sid] # None
            /\ sess'[req'[r].sid][1].organization_id = req[r].loc.user.organization_id
     /\ \A s \in SIDs :
          sess'[s] # None => sess'[s][1].organization_id # NullId]_vars

\* a login has just succeeded while the users table holds a row without an
\* organization
C14_Witness ==
  \E r \in Reqs :
    /\ req[r].kind = "login" /\ req[r].pc = "done" /\ req[r].status = 200
    /\ sess[req[r].sid] # None
    /\ sess[req[r].sid][1].organization_id # NullId
    /\ \E u \in users : u.organization_id = NullId

\* C15: a registration whose email is the email of a users row is never
\* accepted: if the row exists when the request arrives, the request ends at
\* once with 400 (validation or business name; 500 when the database rejects
\* the lookup) or goes on to its email lookup; if the row exists when the
\* email lookup runs, the request ends there with 400 (500 when the database
\* rejects the lookup); and neither step creates an organizations or users
\* row, so the request reaches no INSERT.
C15_DuplicateEmailRejected ==
  [][\A r \in Reqs :
       /\ (Starts(r) /\ req'[r].kind = "register"
             /\ \E u \in users : u.email = req'[r].body.email)
            => /\ req'[r].pc \in {"done", "emailCheck"}
               /\ req'[r].pc = "done" =>
                    req'[r].status = IF req'[r].dbfail THEN 500 ELSE 400
               /\ organizations' = organizations /\ users' = users
               /\ nextOrgId' = nextOrgId /\ nextUserId' = nextUserId
       /\ (req[r].kind = "register" /\ req[r].pc = "emailCheck" /\ req'[r] # req[r]
             /\ \E u \in users : u.email = req[r].body.email)
            => /\ req'[r].pc = "done"
               /\ req'[r].status = IF req'[r].dbfail THEN 500 ELSE 400
               /\ organizations' = organizations /\ users' = users
               /\ nextOrgId' = nextOrgId /\ nextUserId' = nextUserId]_vars

\* a registration with a new business name was refused by its email lookup,
\* and no organization of that name exists
C15_Witness ==
  \E r \in Reqs :
    /\ req[r].kind = "register" /\ req[r].pc = "done" /\ req[r].status = 400
    /\ req[r].out = [error |-> "Email already exists"] /\ req[r].nq = 2
    /\ \E u \in users : u.email = req[r].body.email
    /\ \A o \in organizations : o.name # req[r].body.businessName

\* C16: every logout request gets exactly one response, 200 or 500.  It is
\* 500 {error: "Logout failed"} with the cookie not cleared when the store
\* did not remove the record; it is 200 {message: "Logged out successfully"}
\* with the cookie cleared and no record left under the session otherwise.
C16_LogoutResponse ==
  [][\A r \in Reqs :
       (Completes(r) /\ req'[r].kind = "logout") =>
         /\ req'[r].nres = 1
         /\ req'[r].status \in {200, 500}
         /\ sess'[req'[r].sid] # None => req'[r].status = 500
         /\ req'[r].status = 500 =>
              /\ req'[r].out = [error |-> "Logout failed"]
              /\ ~req'[r].cleared
              /\ sess'[req'[r].sid] = sess[req'[r].sid]
         /\ req'[r].status = 200 =>
              /\ req'[r].out = [message |-> "Logged out successfully"]
              /\ req'[r].cleared
              /\ sess'[req'[r].sid] = None]_vars

\* the store failed to remove the record of a logged-in session: 500, the
\* cookie is not cleared and the session still holds its user
C16_Witness ==
  \E r \in Reqs :
    /\ req[r].kind = "logout" /\ req[r].pc = "done" /\ req[r].status = 500
    /\ ~req[r].cleared /\ req[r].nres = 1
    /\ sess[req[r].sid] # None

\* C17: a protected request that presents the cookie of a session more than
\* maxAge (24 hours) after that session was created is answered 401,
\* whatever requests the session served in between.  (A cookie whose record
\* the store holds no more is answered 401 by C1.)
C17_FixedTTL ==
  [][\A r \in Reqs :
       (Starts(r) /\ req'[r].kind \in Protected
          /\ sess[req'[r].sid] # None
          /\ now > created[req'[r].sid] + MaxAge)
         => req'[r].status = 401]_vars

\* C18: the session id under which a successful login stores its snapshot
\* is fresh: the request arrived without a live session, so that the
\* middleware generated the id for it.
C18_FreshSessionID ==
  [][\A r \in Reqs :
       (Completes(r) /\ req'[r].kind = "login" /\ req'[r].status = 200)
         => req[r].user = None]_vars

\* C19: one client on an empty database.  Its registration with a business
\* name, a user name, an email and matching passwords is answered 201 and
\* leaves one organization and one user row with those names; its login with
\* that email and password is answered 200 and leaves a session; /current on
\* that session is answered 200 with user.name the registered userName and
\* organization_name the registered businessName; logout is answered 200 and
\* leaves no session; and /current after that is answered 401.  (A request
\* whose database call is rejected is answered 500, a logout whose record the
\* store does not remove likewise, and the client stops there.)
C19_EndToEnd ==
  [][\A r \in Reqs :
       Completes(r) =>
         LET q == req'[r]
             stage == started' - FlowStart IN
         /\ (stage = 1 /\ ~q.dbfail) =>
              /\ q.kind = "register" /\ q.status = 201
              /\ \E o \in organizations', u \in users' :
                   /\ organizations' = {o} /\ users' = {u}
                   /\ o.name = q.body.businessName
                   /\ u.name = q.body.userName /\ u.email = q.body.email
                   /\ u.organization_id = o.id
         /\ (stage = 2 /\ ~q.dbfail) =>
              /\ q.kind = "login" /\ q.status = 200
              /\ sess'[q.sid] # None
         /\ (stage = 3 /\ ~q.dbfail) =>
              /\ q.kind = "current" /\ q.status = 200
              /\ \A u \in users : q.out.user.name = u.name
              /\ \A o \in organizations : q.out.user.organization_name = o.name
         /\ (stage = 4 /\ sess'[q.sid] = None) =>
              /\ q.kind = "logout" /\ q.status = 200
         /\ stage = 5 =>
              /\ q.kind = "current" /\ q.status = 401]_vars

\* the client has gone through all five requests: the last /current was
\* refused, the registered rows are in the database and no session is left
C19_Witness ==
  /\ FlowStage = Len(FlowStages)
  /\ req[1].kind = "current" /\ req[1].pc = "done" /\ req[1].status = 401
  /\ users # {} /\ organizations # {}
  /\ \A s \in SIDs : sess[s] = None

\* C20: in the login, registration, /current and dashboard handlers, the
\* step in which the database rejects a call ends the request with exactly
\* one response, 500 {error: "Server error"}, the rejected call being the
\* last one counted for it; and a request so ended makes no further step.
C20_NoRetry ==
  [][\A r \in Reqs :
       /\ (req'[r].kind \in {"login", "register", "current", "dashboard"}
             /\ req'[r].dbfail /\ (~req[r].dbfail \/ Starts(r)))
            => /\ req'[r].pc = "done"
               /\ req'[r].status = 500
               /\ req'[r].out = [error |-> "Server error"]
               /\ req'[r].nres = 1
               /\ req'[r].nq = IF Starts(r) THEN 1 ELSE req[r].nq + 1
       /\ (req[r].dbfail /\ ~Starts(r)) => req'[r] \in {req[r], Idle}]_vars

\* the database rejected the third call of a registration, its INSERT INTO
\* organizations: one 500 response and no fourth call
C20_Witness ==
  \E r \in Reqs :
    /\ req[r].kind = "register" /\ req[r].pc = "done" /\ req[r].dbfail
    /\ req[r].status = 500 /\ req[r].nres = 1 /\ req[r].nq = 3

\* C21: a logout changes no session but the one its cookie names; in every
\* step a session changes only if a request on that session acted; and a
\* protected request arriving on a session that holds a user is not refused
\* 401.  Hence after a logout every other session, also another session of
\* the same user, still passes the authorization check.
C21_LogoutOnlyOwnSession ==
  [][/\ \A r \in Reqs :
          (Completes(r) /\ req'[r].kind = "logout") =>
            \A s \in SIDs \ {req'[r].sid} : sess'[s] = sess[s]
     /\ \A s \in SIDs :
          sess'[s] # sess[s] =>
            \E r \in Reqs : req'[r].sid = s /\ req'[r] # req[r] /\ req'[r] # Idle
     /\ \A r \in Reqs :
          (Starts(r) /\ req'[r].kind \in Protected /\ sess[req'[r].sid] # None)
            => /\ req'[r].status # 401
               /\ req'[r].pc = "query"]_vars

\* a user was logged in on two sessions and has logged out of one: the other
\* session still holds the user
C21_Witness ==
  \E r \in Reqs, s \in SIDs :
    /\ req[r].kind = "logout" /\ req[r].pc = "done" /\ req[r].status = 200
    /\ req[r].user # None /\ sess[req[r].sid] = None
    /\ s # req[r].sid /\ sess[s] # None
    /\ sess[s][1].id = req[r].user[1].id

UsersKinds == {"users_list", "users_create", "users_update", "users_delete"}

\* C22: a request to a user-management route is answered in the step it
\* arrives, 200 or (exactly when the database rejects its statement) 500 and
\* never 401, and its answer and its effect on the users table are those
\* of its statement on the table and the request body alone: neither depends
\* on the session the request carries, and no session changes.
C22_NoSessionCheck ==
  [][\A r \in Reqs :
       (Starts(r) /\ req'[r].kind \in UsersKinds) =>
         LET q == req'[r]
             b == q.body IN
         /\ q.pc = "done" /\ q.status \in {200, 500}
         /\ q.status = 500 <=> q.dbfail
         /\ sess' = sess
         /\ q.status = 500 => users' = users
         /\ (q.status = 200 /\ q.kind = "users_list") =>
              /\ users' = users /\ q.out.rows = users
         /\ (q.status = 200 /\ q.kind = "users_create") =>
              /\ users' = users \cup
                   {[id |-> nextUserId, organization_id |-> NullId, name |-> b.name,
                     email |-> b.email, password |-> NULL, role |-> NULL]}
              /\ q.out.rows = users' \ users
         /\ (q.status = 200 /\ q.kind = "users_update") =>
              /\ users' = {IF u.id = b.id THEN [u EXCEPT !.name = b.name, !.email = b.email]
                                          ELSE u : u \in users}
              /\ q.out.rows = {u \in users' : u.id = b.id}
         /\ (q.status = 200 /\ q.kind = "users_delete") =>
              /\ users' = {u \in users : u.id # b.id}
              /\ q.out = [message |-> "User deleted"]]_vars

\* a request without a session has deleted a users row while another
\* session is logged in
C22_Witness ==
  \E r \in Reqs :
    /\ req[r].kind = "users_delete" /\ req[r].pc = "done" /\ req[r].status = 200
    /\ req[r].user = None
    /\ req[r].body.id < nextUserId /\ \A u \in users : u.id # req[r].body.id
    /\ \E s \in SIDs : sess[s] # None

\* C23: a user-management request is never answered 404: its status is 200
\* or 500, and 500 only when the database rejects its statement.  PUT and
\* DELETE /api/users/:id with an id that matches no row are answered 200
\* (500 when the database rejects the statement) and leave the users table
\* unchanged.
C23_NoNotFound ==
  [][\A r \in Reqs :
       (Starts(r) /\ req'[r].kind \in UsersKinds) =>
         /\ req'[r].status \in {200, 500}
         /\ req'[r].status = 500 => req'[r].dbfail
         /\ (req'[r].kind \in {"users_update", "users_delete"}
               /\ \A u \in users : u.id # req'[r].body.id) =>
              /\ users' = users
              /\ req'[r].status = IF req'[r].dbfail THEN 500 ELSE 200]_vars

\* PUT /api/users/:id with an id that matches no row was answered 200 with
\* no row, while the table holds other rows
C23_Witness ==
  \E r \in Reqs :
    /\ req[r].kind = "users_update" /\ req[r].pc = "done" /\ req[r].status = 200
    /\ req[r].out.rows = {}
    /\ users # {} /\ \A u \in users : u.id # req[r].body.id

\* C25: a login that is not answered 200 (400 for missing fields, 400 for
\* invalid credentials, 500 when the database or bcrypt.compare rejects)
\* leaves every session as it was: a session that held a user holds the same
\* snapshot, a session without a user has none.
C25_FailedLoginKeepsSession ==
  [][\A r \in Reqs :
       (Completes(r) /\ req'[r].kind = "login" /\ req'[r].status # 200) =>
         /\ req'[r].status \in {400, 500}
         /\ sess' = sess
         /\ req'[r].user = IF Starts(r) THEN sess[req'[r].sid] ELSE req[r].user]_vars

\* a login with a wrong password was refused on a session that holds a user,
\* and the session still holds that user
C25_Witness ==
  \E r \in Reqs :
    /\ req[r].kind = "login" /\ req[r].pc = "done" /\ req[r].status = 400
    /\ req[r].out = [error |-> "Invalid credentials"]
    /\ req[r].loc.rows # {}
    /\ req[r].user # None /\ sess[req[r].sid] = req[r].user
    /\ req[r].user[1].email # req[r].body.email

\* C26: PUT and DELETE /api/users/:id change no session; a protected
\* request arriving on a session that holds a user passes the session check
\* whether or not the users row of that user still exists; and /current then
\* answers 200 with the id, name and email of the snapshot (500 when the
\* database rejects its lookup).
C26_SessionOutlivesUserRow ==
  [][/\ \A r \in Reqs :
          (Starts(r) /\ req'[r].kind \in {"users_update", "users_delete"})
            => sess' = sess
     /\ \A r \in Reqs :
          (Starts(r) /\ req'[r].kind \in Protected /\ sess[req'[r].sid] # None)
            => /\ req'[r].pc = "query"
               /\ req'[r].user = sess[req'[r].sid]
     /\ \A r \in Reqs :
          (Completes(r) /\ req'[r].kind = "current" /\ req[r].pc = "query") =>
            /\ req'[r].status = IF req'[r].dbfail THEN 500 ELSE 200
            /\ req'[r].status = 200 =>
                 /\ req'[r].out.user.id = req[r].user[1].id
                 /\ req'[r].out.user.name = req[r].user[1].name
                 /\ req'[r].out.user.email = req[r].user[1].email]_vars

\* /current has answered 200 for a user whose row was deleted after the
\* login, and the session still holds the snapshot
C26_Witness ==
  \E r \in Reqs :
    /\ req[r].kind = "current" /\ req[r].pc = "done" /\ req[r].status = 200
    /\ \A u \in users : u.id # req[r].out.user.id
    /\ sess[req[r].sid] = req[r].user

\* C27: a logout is never answered 401: its status is 200, or 500 when the
\* store reports an error.  After a logout answered 200 the session has no
\* user, and a logout on a session that has no user changes no session: a
\* second logout leaves the state the first one left.
C27_LogoutIdempotent ==
  [][\A r \in Reqs :
       (Completes(r) /\ req'[r].kind = "logout") =>
         /\ req'[r].status \in {200, 500}
         /\ req'[r].status = 200 => sess'[req'[r].sid] = None
         /\ sess[req'[r].sid] = None => sess' = sess]_vars

\* a logout on a session without a user was answered 200 and the cookie
\* cleared, while another session stays logged in
C27_Witness ==
  \E r \in Reqs :
    /\ req[r].kind = "logout" /\ req[r].pc = "done" /\ req[r].status = 200
    /\ req[r].user = None /\ req[r].cleared
    /\ sess[req[r].sid] = None
    /\ \E s \in SIDs : sess[s] # None

\* C24: in every variant of the client's session check, a 401 answer of
\* /api/auth/current ends with the page at login.html, and the page has
\* issued the request once only (no retry).
C24_UnauthorizedEndsAtLogin ==
  \A p \in Pages :
    /\ [](pages[p].status = 401 => pages[p].fetches = 1)
    /\ (pages[p].status = 401) ~>
         (pages[p].pc = "done" /\ pages[p].location = "login.html"
            /\ pages[p].fetches = 1)

\* two pages of different variants, one a promise chain without the page's
\* elements, have both got 401 and are at login.html
C24_Witness ==
  /\ \A p \in Pages :
       /\ pages[p].status = 401 /\ pages[p].pc = "done"
       /\ pages[p].location = "login.html"
  /\ pages[1].variant = "sidebar" /\ ~pages[1].els
  /\ pages[2].variant = "loadCurrentUser"

\* C28: every request that loadTransactions(page) sends to the transactions
\* endpoint carries limit = 20, offset = page * 20 and the filters applied
\* (from, to, category, vendor) in its query string.
C28_RequestCarriesPageAndFilters ==
  txn.sent # None =>
    LET query == txn.sent[1].url.query IN
    /\ DOMAIN query = {"limit", "offset"} \cup DOMAIN txn.currentFilters
    /\ query["limit"] = "20"
    /\ query["offset"] = ToString(txn.currentPage * 20)
    /\ \A k \in DOMAIN txn.currentFilters : query[k] = txn.currentFilters[k]

\* C29: removeMessage(thinkingId) of handleChatSubmit removes a temporary
\* 'Thinking...' indicator only: no element that is the user's message or
\* another message of the chat ever leaves the page, whatever the timing of
\* the calls of addMessageToChat.
C29_RemovesOnlyIndicator ==
  [][\A i \in DOMAIN chat.messages :
       (\A j \in DOMAIN chat'.messages :
          chat'.messages[j].node # chat.messages[i].node)
       => chat.messages[i].temporary]_vars
====
